---- MODULE Spec2Model ----
(***************************************************************************)
(* Model of src/main.c (rt_hello): main creates two POSIX threads running  *)
(* task_fn on the descriptors A and B, joins both, writes the status line  *)
(* and returns.  Each step of main and of task_fn between two library      *)
(* calls is one action; the threads interleave freely (no real-time        *)
(* guarantee is given by the scheduler or by nanosleep).                   *)
(*                                                                         *)
(* stdout is modelled as the C library keeps it: a FILE buffer (buf)       *)
(* guarded by the stream lock (lock) in front of the file descriptor       *)
(* (out).  A printf/puts call holds the lock from its first character to   *)
(* its last; the text and the newline of a record are written as two       *)
(* chunks so that a missing lock would show as a torn record.              *)
(***************************************************************************)
EXTENDS Integers, Sequences, FiniteSets, TLC

\* Largest iteration count a descriptor is given (main.c uses 5).
MaxIter == 2

\* The two task_params_t variables of main.
Tasks == {"A", "B"}

\* The name field main gives each descriptor.
TaskName(t) == IF t = "A" THEN "TASK_A" ELSE "TASK_B"

\* The period_ms values a descriptor is given: 0, the two of main.c, and one
\* above a second (both fields of the timespec of sleep_ms are then non-zero).
PeriodA == 10
PeriodB == 16
Periods == {0, PeriodA, PeriodB, 1500}

\* Buffering of stdout: line buffered on a terminal, fully buffered otherwise.
Modes == {"line", "full"}

VARIABLES
  desc,      \* desc[t]: the task_params_t of task t (name, period_ms, iterations)
  mpc,       \* position of main
  tpc,       \* tpc[t]: position of the thread running task_fn(&t)
  i,         \* i[t]: the loop variable i of task_fn
  lock,      \* owner of the stdout stream lock, or "none"
  buf,       \* stdout's FILE buffer: chunks written and not yet flushed
  out,       \* what has reached file descriptor 1
  err,       \* what has reached file descriptor 2 (perror)
  mode,      \* buffering mode of stdout
  attempts,  \* attempts[t]: number of pthread_create calls made for t
  created,   \* tasks whose pthread_create returned 0
  joined,    \* tasks whose pthread_join has returned
  ts,        \* ts[t]: the timespec of the last nanosleep call of t
  nsleeps,   \* nsleeps[t]: number of nanosleep calls of t
  exitcode   \* -1 while the process runs, then the status main returned

vars == <<desc, mpc, tpc, i, lock, buf, out, err, mode, attempts, created,
          joined, ts, nsleeps, exitcode>>

----------------------------------------------------------------------------
\* Output chunks.

\* "[%s] iteration %d" of line 32, without its newline.
IterText(name, n) == [tag |-> name, ev |-> "iteration", n |-> n]

\* "[%s] done" of line 36, without its newline.
DoneText(name) == [tag |-> name, ev |-> "done", n |-> 0]

\* "SELF_TEST_FAIL" of line 53 (puts adds the newline).
StatusText == [tag |-> "", ev |-> "SELF_TEST_FAIL", n |-> 0]

\* The newline ending a record.
Newline == [tag |-> "", ev |-> "nl", n |-> 0]

\* Everything written to stdout so far, flushed or not.
Stream == out \o buf

\* Mutant: the seconds are dropped (tv_sec = 0).
SleepTsNoSec(ms) == [tv_sec |-> 0, tv_nsec |-> (ms % 1000) * 1000000]

\* sleep_ms: the timespec built from ms.
SleepTs(ms) == [tv_sec |-> ms \div 1000, tv_nsec |-> (ms % 1000) * 1000000]

NoTs == [tv_sec |-> -1, tv_nsec |-> -1]

----------------------------------------------------------------------------
Init ==
  /\ desc \in [Tasks -> [name : {"TASK_A", "TASK_B"}, period_ms : Periods,
                         iterations : 0..MaxIter]]
  /\ \A t \in Tasks : desc[t].name = TaskName(t)
  /\ mpc = "create_A"
  /\ tpc = [t \in Tasks |-> "unborn"]
  /\ i = [t \in Tasks |-> 0]
  /\ lock = "none"
  /\ buf = <<>>
  /\ out = <<>>
  /\ err = <<>>
  /\ mode \in Modes
  /\ attempts = [t \in Tasks |-> 0]
  /\ created = {}
  /\ joined = {}
  /\ ts = [t \in Tasks |-> NoTs]
  /\ nsleeps = [t \in Tasks |-> 0]
  /\ exitcode = -1

----------------------------------------------------------------------------
\* stdio: one locked write call (printf, puts) in two chunks, and fflush.

\* Mutant: no stream lock at all.
LockFreeAlways(w) == TRUE

\* Mutant: TASK_B may write only once TASK_A has returned.
LockFreeAFirst(w) ==
  /\ lock = "none"
  /\ (w = "B" => tpc["A"] \in {"return", "terminated"})

\* The stream lock is free for writer w to take.
LockFree(w) == lock = "none"

\* First half of a write call: take the lock, put the text in the buffer.
WriteText(w, text) ==
  /\ LockFree(w)
  /\ lock' = w
  /\ buf' = Append(buf, text)
  /\ out' = out

\* Mutant: the write call returns without releasing the lock.
WriteNewlineKeepLock(w) ==
  /\ lock = w
  /\ lock' = lock
  /\ IF mode = "line"
       THEN /\ out' = out \o Append(buf, Newline)
            /\ buf' = <<>>
       ELSE /\ buf' = Append(buf, Newline)
            /\ out' = out

\* Second half: put the newline, flush if line buffered, release the lock.
WriteNewline(w) ==
  /\ lock = w
  /\ lock' = "none"
  /\ IF mode = "line"
       THEN /\ out' = out \o Append(buf, Newline)
            /\ buf' = <<>>
       ELSE /\ buf' = Append(buf, Newline)
            /\ out' = out

\* Mutant: the fflush call is missing (nothing is flushed).
FflushNothing(w) ==
  /\ LockFree(w)
  /\ UNCHANGED <<out, buf, lock>>

\* fflush(stdout): under the lock, everything buffered reaches the descriptor.
Fflush(w) ==
  /\ LockFree(w)
  /\ out' = out \o buf
  /\ buf' = <<>>
  /\ lock' = lock

----------------------------------------------------------------------------
\* task_fn, one action per step of thread t.

\* Mutant: for (int i = 0; ...).
LoopInitZero == 1 - 1

\* for (int i = 1; ...): the initial value of the loop variable.
LoopInit == 1

\* task_params_t* p = arg; int i = 1: the first step of the new thread.
TaskStart(t) ==
  /\ tpc[t] = "start"
  /\ i' = [i EXCEPT ![t] = LoopInit]
  /\ tpc' = [tpc EXCEPT ![t] = "loop"]
  /\ UNCHANGED <<desc, mpc, lock, buf, out, err, mode, attempts, created,
                 joined, ts, nsleeps, exitcode>>

\* Mutant: i < p->iterations.
LoopCondStrict(t) == i[t] < desc[t].iterations

\* for (...; i <= p->iterations; ...): the test of the loop.
LoopCond(t) == i[t] <= desc[t].iterations

LoopTest(t) ==
  /\ tpc[t] = "loop"
  /\ tpc' = [tpc EXCEPT ![t] = IF LoopCond(t) THEN "work" ELSE "print_done"]
  /\ UNCHANGED <<desc, mpc, i, lock, buf, out, err, mode, attempts, created,
                 joined, ts, nsleeps, exitcode>>

\* The busy loop of line 30: no effect but time.
Work(t) ==
  /\ tpc[t] = "work"
  /\ tpc' = [tpc EXCEPT ![t] = "printf"]
  /\ UNCHANGED <<desc, mpc, i, lock, buf, out, err, mode, attempts, created,
                 joined, ts, nsleeps, exitcode>>

\* printf("[%s] iteration %d\n", p->name, i)
PrintIter(t) ==
  /\ tpc[t] = "printf"
  /\ WriteText(t, IterText(desc[t].name, i[t]))
  /\ tpc' = [tpc EXCEPT ![t] = "printf_nl"]
  /\ UNCHANGED <<desc, mpc, i, err, mode, attempts, created, joined, ts,
                 nsleeps, exitcode>>

PrintIterNl(t) ==
  /\ tpc[t] = "printf_nl"
  /\ WriteNewline(t)
  /\ tpc' = [tpc EXCEPT ![t] = "fflush"]
  /\ UNCHANGED <<desc, mpc, i, err, mode, attempts, created, joined, ts,
                 nsleeps, exitcode>>

\* fflush(stdout) of line 33
FlushIter(t) ==
  /\ tpc[t] = "fflush"
  /\ Fflush(t)
  /\ tpc' = [tpc EXCEPT ![t] = "sleep"]
  /\ UNCHANGED <<desc, mpc, i, err, mode, attempts, created, joined, ts,
                 nsleeps, exitcode>>

\* sleep_ms(p->period_ms): build the timespec and enter nanosleep.
Sleep(t) ==
  /\ tpc[t] = "sleep"
  /\ ts' = [ts EXCEPT ![t] = SleepTs(desc[t].period_ms)]
  /\ nsleeps' = [nsleeps EXCEPT ![t] = @ + 1]
  /\ tpc' = [tpc EXCEPT ![t] = "sleeping"]
  /\ UNCHANGED <<desc, mpc, i, lock, buf, out, err, mode, attempts, created,
                 joined, exitcode>>

\* Mutant: the loop counts down in the descriptor (p->iterations--)
\* instead of counting up in i.
WakeCountDown(t) ==
  /\ tpc[t] = "sleeping"
  /\ desc' = [desc EXCEPT ![t].iterations = @ - 1]
  /\ tpc' = [tpc EXCEPT ![t] = "loop"]
  /\ UNCHANGED <<mpc, i, lock, buf, out, err, mode, attempts, created,
                 joined, ts, nsleeps, exitcode>>

\* nanosleep returns; i++ of the for statement.
Wake(t) ==
  /\ tpc[t] = "sleeping"
  /\ i' = [i EXCEPT ![t] = @ + 1]
  /\ tpc' = [tpc EXCEPT ![t] = "loop"]
  /\ UNCHANGED <<desc, mpc, lock, buf, out, err, mode, attempts, created,
                 joined, ts, nsleeps, exitcode>>

\* printf("[%s] done\n", p->name)
PrintDone(t) ==
  /\ tpc[t] = "print_done"
  /\ WriteText(t, DoneText(desc[t].name))
  /\ tpc' = [tpc EXCEPT ![t] = "print_done_nl"]
  /\ UNCHANGED <<desc, mpc, i, err, mode, attempts, created, joined, ts,
                 nsleeps, exitcode>>

PrintDoneNl(t) ==
  /\ tpc[t] = "print_done_nl"
  /\ WriteNewline(t)
  /\ tpc' = [tpc EXCEPT ![t] = "fflush_done"]
  /\ UNCHANGED <<desc, mpc, i, err, mode, attempts, created, joined, ts,
                 nsleeps, exitcode>>

\* fflush(stdout) of line 36
FlushDone(t) ==
  /\ tpc[t] = "fflush_done"
  /\ Fflush(t)
  /\ tpc' = [tpc EXCEPT ![t] = "return"]
  /\ UNCHANGED <<desc, mpc, i, err, mode, attempts, created, joined, ts,
                 nsleeps, exitcode>>

\* return NULL: the thread terminates.
TaskReturn(t) ==
  /\ tpc[t] = "return"
  /\ tpc' = [tpc EXCEPT ![t] = "terminated"]
  /\ UNCHANGED <<desc, mpc, i, lock, buf, out, err, mode, attempts, created,
                 joined, ts, nsleeps, exitcode>>

TaskNext(t) ==
  \/ TaskStart(t)
  \/ LoopTest(t)
  \/ Work(t)
  \/ PrintIter(t)
  \/ PrintIterNl(t)
  \/ FlushIter(t)
  \/ Sleep(t)
  \/ Wake(t)
  \/ PrintDone(t)
  \/ PrintDoneNl(t)
  \/ FlushDone(t)
  \/ TaskReturn(t)

----------------------------------------------------------------------------
\* main

\* Mutant: the two pthread_join calls are missing.
AfterCreateNoJoin(t) == IF t = "A" THEN "create_B" ELSE "puts"

\* Position of main after the pthread_create of t succeeded.
AfterCreate(t) == IF t = "A" THEN "create_B" ELSE "join_A"

\* Mutant: pthread_join(tb, NULL) is missing.
AfterJoinSkipB(t) == "puts"

\* Position of main after the pthread_join of t returned.
AfterJoin(t) == IF t = "A" THEN "join_B" ELSE "puts"

\* Mutant: the launch returns only once every task launched before has
\* run to its end (the task is run synchronously).
CreateOkBlocking(t) ==
  /\ mpc = "create_" \o t
  /\ \A u \in created : tpc[u] = "terminated"
  /\ attempts' = [attempts EXCEPT ![t] = @ + 1]
  /\ created' = created \cup {t}
  /\ tpc' = [tpc EXCEPT ![t] = "start"]
  /\ mpc' = AfterCreate(t)
  /\ UNCHANGED <<desc, i, lock, buf, out, err, mode, joined, ts, nsleeps,
                 exitcode>>

\* pthread_create(&t.., task_fn, &t) returns 0: the thread exists.
CreateOk(t) ==
  /\ mpc = "create_" \o t
  /\ attempts' = [attempts EXCEPT ![t] = @ + 1]
  /\ created' = created \cup {t}
  /\ tpc' = [tpc EXCEPT ![t] = "start"]
  /\ mpc' = AfterCreate(t)
  /\ UNCHANGED <<desc, i, lock, buf, out, err, mode, joined, ts, nsleeps,
                 exitcode>>

\* pthread_create returns an error: no thread; main goes to perror.
CreateFail(t) ==
  /\ mpc = "create_" \o t
  /\ attempts' = [attempts EXCEPT ![t] = @ + 1]
  /\ mpc' = "perror_" \o t
  /\ UNCHANGED <<desc, tpc, i, lock, buf, out, err, mode, created, joined,
                 ts, nsleeps, exitcode>>

\* Mutant: the return 1 after perror is missing.
PErrorContinue(t) ==
  /\ mpc = "perror_" \o t
  /\ err' = Append(err, "pthread_create " \o t)
  /\ mpc' = AfterCreate(t)
  /\ UNCHANGED <<desc, tpc, i, lock, buf, out, mode, attempts, created,
                 joined, ts, nsleeps, exitcode>>

\* perror("pthread_create A") / perror("pthread_create B"), then return 1.
PError(t) ==
  /\ mpc = "perror_" \o t
  /\ err' = Append(err, "pthread_create " \o t)
  /\ mpc' = "return1"
  /\ UNCHANGED <<desc, tpc, i, lock, buf, out, mode, attempts, created,
                 joined, ts, nsleeps, exitcode>>

\* Mutant: the wait returns as soon as the done record is out (Completed),
\* before the thread has returned.
JoinReadyCompleted(t) == tpc[t] \in {"return", "terminated"}

\* pthread_join returns for t once the thread of t has terminated.
JoinReady(t) == tpc[t] = "terminated"

Join(t) ==
  /\ mpc = "join_" \o t
  /\ JoinReady(t)
  /\ joined' = joined \cup {t}
  /\ mpc' = AfterJoin(t)
  /\ UNCHANGED <<desc, tpc, i, lock, buf, out, err, mode, attempts, created,
                 ts, nsleeps, exitcode>>

\* puts("SELF_TEST_FAIL")
Puts ==
  /\ mpc = "puts"
  /\ WriteText("main", StatusText)
  /\ mpc' = "puts_nl"
  /\ UNCHANGED <<desc, tpc, i, err, mode, attempts, created, joined, ts,
                 nsleeps, exitcode>>

PutsNl ==
  /\ mpc = "puts_nl"
  /\ WriteNewline("main")
  /\ mpc' = "return0"
  /\ UNCHANGED <<desc, tpc, i, err, mode, attempts, created, joined, ts,
                 nsleeps, exitcode>>

\* A thread that exists and has not returned from task_fn.
Live(t) == tpc[t] \notin {"unborn", "terminated", "killed"}

\* return from main = exit(status): stdout is flushed, the process ends and
\* every thread still running ends with it.
Exit(status) ==
  /\ out' = out \o buf
  /\ buf' = <<>>
  /\ tpc' = [t \in Tasks |-> IF Live(t) THEN "killed" ELSE tpc[t]]
  /\ exitcode' = status
  /\ mpc' = "exited"
  /\ UNCHANGED <<desc, i, lock, err, mode, attempts, created, joined, ts,
                 nsleeps>>

\* return 0 of line 54
Return0 ==
  /\ mpc = "return0"
  /\ Exit(0)

\* return 1 of lines 46 and 47
Return1 ==
  /\ mpc = "return1"
  /\ Exit(1)

MainNext ==
  \/ \E t \in Tasks : CreateOk(t)
  \/ \E t \in Tasks : CreateFail(t)
  \/ \E t \in Tasks : PError(t)
  \/ \E t \in Tasks : Join(t)
  \/ Puts
  \/ PutsNl
  \/ Return0
  \/ Return1

Next ==
  \/ MainNext
  \/ \E t \in Tasks : TaskNext(t)

Spec == Init /\ [][Next]_vars

\* The scheduler runs every runnable thread eventually.
FairSpec == Spec /\ WF_vars(MainNext) /\ \A t \in Tasks : WF_vars(TaskNext(t))

----------------------------------------------------------------------------
\* Observations used by the properties.

\* The event stream of task t: its records in the order written.
Events(t) == SelectSeq(Stream, LAMBDA c : c.tag = desc[t].name)

\* The task whose thread failed to launch.
LaunchFailed(t) == attempts[t] > 0 /\ t \notin created

\* Task t has written its done record.
DoneEmitted(t) == \E k \in 1..Len(Events(t)) : Events(t)[k].ev = "done"

\* Positions of the status line in the stream.
StatusPos == {k \in 1..Len(Stream) : Stream[k] = StatusText}

----------------------------------------------------------------------------
\* C1: for a task with iterations >= 1 (any period, 0 included) the event
\* stream is, at every moment, iteration events followed by at most one done
\* event, the done event only in position iterations + 1; once the thread has
\* run to its end the stream is exactly iterations iteration events followed
\* by one done event.
C1_EventStream ==
  \A t \in Tasks :
    desc[t].iterations >= 1 =>
      LET e == Events(t)
          n == desc[t].iterations
      IN /\ Len(e) <= n + 1
         /\ \A k \in 1..Len(e) :
              /\ e[k].ev \in {"iteration", "done"}
              /\ (e[k].ev = "iteration") <=> (k <= n)
         /\ tpc[t] = "terminated" => Len(e) = n + 1

\* A task with period 0 and two iterations ran to its end while the other
\* task was running too.
C1_Witness ==
  \E t \in Tasks :
    /\ desc[t].iterations = 2
    /\ desc[t].period_ms = 0
    /\ tpc[t] = "terminated"
    /\ Len(Events(t)) = 3
    /\ Events(t)[3].ev = "done"
    /\ \E u \in Tasks \ {t} : tpc[u] = "sleeping"

\* C2: the k-th iteration event of a task carries the label k.
C2_Labels ==
  \A t \in Tasks :
    \A k \in 1..Len(Events(t)) :
      Events(t)[k].ev = "iteration" => Events(t)[k].n = k

\* Both tasks have written their second iteration event, B's first.
C2_Witness ==
  /\ \A t \in Tasks : Len(Events(t)) = 2 /\ Events(t)[2].ev = "iteration"
  /\ Stream[1].tag = "TASK_B"

\* C3: under fair scheduling, once both launches have succeeded both tasks
\* write their done record, main returns from both joins and the process ends
\* with status 0.
C3_BothComplete ==
  (created = Tasks) ~>
     /\ mpc = "exited"
     /\ exitcode = 0
     /\ joined = Tasks
     /\ \A t \in Tasks : tpc[t] = "terminated" /\ DoneEmitted(t)

\* Both tasks, with different periods, completed and main ended.
C3_Witness ==
  /\ mpc = "exited"
  /\ exitcode = 0
  /\ joined = Tasks
  /\ desc["A"].period_ms = PeriodA
  /\ desc["B"].period_ms = PeriodB
  /\ \A t \in Tasks : desc[t].iterations = 2 /\ DoneEmitted(t)

\* C4: once pthread_join has returned for task t, the thread of t has
\* terminated, stays terminated, and the event stream of t does not change.
C4_JoinAfterTermination ==
  [][\A t \in Tasks :
       t \in joined' =>
         /\ tpc[t] = "terminated"
         /\ tpc'[t] = "terminated"
         /\ Events(t)' = Events(t)]_vars

\* join(ta) has returned while TASK_B is still about to write.
C4_Witness ==
  /\ "A" \in joined
  /\ tpc["B"] = "printf"
  /\ Len(Events("A")) = 3

\* C5: a task whose iterations is 0 is never launched and writes no event.
C5_ZeroBudgetRejected ==
  \A t \in Tasks :
    desc[t].iterations = 0 => (t \notin created /\ Events(t) = <<>>)

\* C6: when the launch of a task has failed, main goes through perror and
\* return 1 only: no join has been or is made, no pthread_create is called
\* again for that task nor for a later one, the status line is never written
\* and the process ends with status 1.
C6_AbortOnLaunchFailure ==
  /\ \A t \in Tasks : attempts[t] <= 1
  /\ \A t \in Tasks :
       LaunchFailed(t) =>
         /\ mpc \in {"perror_" \o t, "return1", "exited"}
         /\ joined = {}
         /\ (t = "A" => attempts["B"] = 0 /\ created = {})
         /\ StatusPos = {}
         /\ exitcode \in {-1, 1}
         /\ (mpc = "exited" => exitcode = 1)

\* TASK_A was launched, the launch of TASK_B failed and the process has ended.
C6_Witness ==
  /\ created = {"A"}
  /\ LaunchFailed("B")
  /\ mpc = "exited"
  /\ exitcode = 1
  /\ err = <<"pthread_create B">>

\* C7 as stated: when the process has ended, every task whose thread was
\* created has written all its events and has terminated.
C7_AlwaysRunsToCompletion ==
  mpc = "exited" =>
    \A t \in created :
      desc[t].iterations >= 1 =>
      /\ tpc[t] = "terminated"
      /\ Len(Events(t)) = desc[t].iterations + 1
      /\ DoneEmitted(t)

\* C7 amended: a created task eventually writes all its events and
\* terminates unless the driver aborts on a failed launch (exit status 1);
\* when the process ends with status 0 every task has written all its events
\* and none is still running.
C7_CompletionUnlessAborted ==
  /\ \A t \in Tasks :
       (t \in created) ~>
          \/ /\ tpc[t] = "terminated"
             /\ Len(Events(t)) = desc[t].iterations + 1
             /\ DoneEmitted(t)
          \/ exitcode = 1
  /\ [](exitcode = 0 =>
          \A t \in Tasks :
            /\ tpc[t] = "terminated"
            /\ Len(Events(t)) = desc[t].iterations + 1
            /\ DoneEmitted(t))

\* The launch of TASK_B failed and the exit of main ended TASK_A in its
\* first sleep, before its second iteration.
C7_Witness ==
  /\ exitcode = 1
  /\ created = {"A"}
  /\ desc["A"].iterations = 2
  /\ tpc["A"] = "killed"
  /\ Len(Events("A")) = 1

\* C8: the status line is written at most once, only after both joins have
\* returned and both tasks have written done; nothing but its newline follows
\* it; and the process that wrote it ends with status 0 with the line as the
\* last record of the output.
C8_StatusLine ==
  /\ Cardinality(StatusPos) <= 1
  /\ StatusPos # {} =>
       /\ joined = Tasks
       /\ \A t \in Tasks : DoneEmitted(t) /\ tpc[t] = "terminated"
       /\ \A k \in StatusPos : \A j \in (k + 1)..Len(Stream) :
            j = k + 1 /\ Stream[j] = Newline
       /\ exitcode \in {-1, 0}
  /\ (mpc = "exited" /\ joined = Tasks) =>
       /\ exitcode = 0
       /\ buf = <<>>
       /\ Len(out) >= 2
       /\ out[Len(out) - 1] = StatusText
       /\ out[Len(out)] = Newline

\* The process has ended with status 0 after two tasks of two iterations,
\* the status line being the last of seven records.
C8_Witness ==
  /\ mpc = "exited"
  /\ exitcode = 0
  /\ Len(out) = 14
  /\ out[13] = StatusText

\* A writer is between the two halves of a write call.
MidRecord(w) ==
  IF w = "main" THEN mpc = "puts_nl"
  ELSE tpc[w] \in {"printf_nl", "print_done_nl"}

\* C9: within one task the records are in the order iteration 1, 2, ...,
\* done; across tasks nothing orders them: a task that is about to write a
\* record can do so whatever the other task has or has not written, except
\* while another writer is in the middle of one record.
C9_OnlyIntraTaskOrder ==
  /\ \A t \in Tasks : \A j, k \in 1..Len(Events(t)) :
       j < k =>
         /\ Events(t)[j].ev = "iteration"
         /\ Events(t)[k].ev = "iteration" => Events(t)[j].n < Events(t)[k].n
  /\ \A t \in Tasks :
       tpc[t] \in {"printf", "print_done"} =>
         \/ ENABLED (PrintIter(t) \/ PrintDone(t))
         \/ \E w \in (Tasks \cup {"main"}) \ {t} : lock = w /\ MidRecord(w)

\* Every event of TASK_B, done included, was written before the first event
\* of TASK_A, although TASK_A was created first.
C9_Witness ==
  /\ \A t \in Tasks : Len(Events(t)) = 3 /\ DoneEmitted(t)
  /\ \A k \in 1..3 : Stream[2 * k - 1].tag = "TASK_B"
  /\ \A k \in 4..6 : Stream[2 * k - 1].tag = "TASK_A"

\* The converse order: every event of TASK_A before the first of TASK_B.
C9_WitnessAFirst ==
  /\ \A t \in Tasks : Len(Events(t)) = 3 /\ DoneEmitted(t)
  /\ \A k \in 1..3 : Stream[2 * k - 1].tag = "TASK_A"
  /\ \A k \in 4..6 : Stream[2 * k - 1].tag = "TASK_B"

\* The writer of a text chunk.
Writer(c) ==
  IF c.tag = "TASK_A" THEN "A" ELSE IF c.tag = "TASK_B" THEN "B" ELSE "main"

\* C10: every record is one contiguous line: a text chunk is followed at
\* once by its newline, a newline follows a text chunk, and a text without
\* its newline is the last chunk written, by the writer that holds the lock.
C10_RecordsContiguous ==
  \A k \in 1..Len(Stream) :
    IF Stream[k] = Newline
      THEN k > 1 /\ Stream[k - 1] # Newline
      ELSE IF k < Len(Stream)
             THEN Stream[k + 1] = Newline
             ELSE lock = Writer(Stream[k])

\* TASK_A is about to write while TASK_B is in the middle of a record.
C10_Witness ==
  /\ tpc["A"] = "printf"
  /\ lock = "B"
  /\ tpc["B"] = "printf_nl"
  /\ Len(Stream) = 3
  /\ Stream[1].tag = "TASK_A"
  /\ Stream[3].tag = "TASK_B"

----------------------------------------------------------------------------
\* The execution state of a task, read off task_fn.

\* completed_iterations: the iterations whose body (work, record, sleep) has
\* ended, that is i - 1 once the loop variable exists (i = 0 stands for a
\* thread that has not yet set it).
CompletedIterations(t) == IF i[t] = 0 THEN 0 ELSE i[t] - 1

\* Running: the thread is in task_fn, before the loop has ended.
Running(t) ==
  tpc[t] \in {"start", "loop", "work", "printf", "printf_nl", "fflush",
              "sleep", "sleeping"}

\* Completed: the loop has ended (the done record is being or has been
\* written).
Completed(t) ==
  tpc[t] \in {"print_done", "print_done_nl", "fflush_done", "return",
              "terminated"}

\* C11: completed_iterations is 0 until the thread starts, stays within
\* 0..iterations, changes only by +1 and only on the step that ends an
\* iteration body (the return from the sleep); a task is Completed only with
\* completed_iterations = iterations, and a Completed task is never Running
\* again.
C11_CompletedIterations ==
  /\ [](\A t \in Tasks :
          /\ CompletedIterations(t) \in 0..desc[t].iterations
          /\ (tpc[t] \in {"unborn", "start"} => CompletedIterations(t) = 0)
          /\ (Completed(t) => CompletedIterations(t) = desc[t].iterations))
  /\ [][\A t \in Tasks :
          /\ CompletedIterations(t)' # CompletedIterations(t) =>
               /\ CompletedIterations(t)' = CompletedIterations(t) + 1
               /\ tpc[t] = "sleeping"
          /\ Completed(t) => ~Running(t)']_vars

\* TASK_A is Completed after two iterations while TASK_B, one iteration
\* done, is still Running.
C11_Witness ==
  /\ Completed("A")
  /\ CompletedIterations("A") = 2
  /\ Running("B")
  /\ CompletedIterations("B") = 1

\* The number of iteration records task t has written.
IterCount(t) == Len(SelectSeq(Events(t), LAMBDA c : c.ev = "iteration"))

\* C12: every iteration is work, record, one sleep of the task's period: the
\* number of nanosleep calls follows the number of iteration records (equal,
\* or one behind between a record and its sleep), the work and the record of
\* iteration i come after exactly i - 1 sleeps, the done record after exactly
\* iterations sleeps (one after the last iteration too), and each sleep asks
\* for a valid timespec worth period_ms milliseconds.
C12_SleepPerIteration ==
  \A t \in Tasks :
    /\ nsleeps[t] <= IterCount(t)
    /\ IterCount(t) <= nsleeps[t] + 1
    /\ IterCount(t) = nsleeps[t] + 1 =>
         tpc[t] \in {"printf_nl", "fflush", "sleep", "killed"}
    /\ tpc[t] = "sleeping" => nsleeps[t] = IterCount(t) /\ nsleeps[t] = i[t]
    /\ tpc[t] \in {"work", "printf"} =>
         nsleeps[t] = i[t] - 1 /\ IterCount(t) = i[t] - 1
    /\ DoneEmitted(t) => nsleeps[t] = desc[t].iterations
    /\ nsleeps[t] > 0 =>
         /\ ts[t].tv_sec >= 0
         /\ ts[t].tv_nsec \in 0..999999999
         /\ ts[t].tv_sec * 1000 + ts[t].tv_nsec \div 1000000
              = desc[t].period_ms

\* A task of period 1500 ms has written done after two sleeps of 1 s and
\* 500000000 ns.
C12_Witness ==
  \E t \in Tasks :
    /\ desc[t].period_ms = 1500
    /\ desc[t].iterations = 2
    /\ DoneEmitted(t)
    /\ nsleeps[t] = 2
    /\ ts[t] = [tv_sec |-> 1, tv_nsec |-> 500000000]

\* C13: a launch does not wait for the tasks already launched: whenever main
\* is at a pthread_create, the call can return at once with the new thread
\* created, whatever the thread created before is doing.
C13_LaunchDoesNotBlock ==
  \A t \in Tasks :
    mpc = "create_" \o t => ENABLED CreateOk(t)

\* TASK_B has been launched and is running while TASK_A, launched first, has
\* not yet taken its first step nor written any event.
C13_Witness ==
  /\ created = Tasks
  /\ tpc["A"] = "start"
  /\ Events("A") = <<>>
  /\ Running("A")
  /\ Running("B")
  /\ tpc["B"] = "sleeping"

\* C14: no step changes a descriptor; a step of the thread of task t changes
\* nothing of the other thread (its position, loop variable, timespec) nor of
\* main, and what it writes is made of its own descriptor and its own i.
C14_DescriptorsImmutable ==
  /\ [](\A t \in Tasks : desc[t].name = TaskName(t))
  /\ [][desc' = desc]_vars
  /\ [][\A t \in Tasks :
          TaskNext(t) =>
            /\ \A u \in Tasks \ {t} :
                 /\ tpc'[u] = tpc[u]
                 /\ i'[u] = i[u]
                 /\ ts'[u] = ts[u]
                 /\ nsleeps'[u] = nsleeps[u]
            /\ UNCHANGED <<mpc, err, mode, attempts, created, joined,
                           exitcode>>
            /\ Len(Stream') > Len(Stream) =>
                 Stream'[Len(Stream')] \in
                   {IterText(desc[t].name, i[t]), DoneText(desc[t].name),
                    Newline}]_vars

\* Both tasks have run to their end and the process has ended with the
\* descriptors as main.c constructs them (but for the iteration count).
C14_Witness ==
  /\ exitcode = 0
  /\ desc["A"] = [name |-> "TASK_A", period_ms |-> PeriodA, iterations |-> 2]
  /\ desc["B"] = [name |-> "TASK_B", period_ms |-> PeriodB, iterations |-> 2]
  /\ \A t \in Tasks : nsleeps[t] = 2 /\ DoneEmitted(t)

\* The records of task t that have reached the file descriptor.
Flushed(t) == SelectSeq(out, LAMBDA c : c.tag = desc[t].name)

\* C15: whenever a task is past the fflush that follows a record (about to
\* sleep, asleep, about to return or terminated), every record it has
\* written has reached the file descriptor as a whole line, newline
\* included, and none of its records is in the buffer.
C15_FlushedPerLine ==
  \A t \in Tasks :
    tpc[t] \in {"sleep", "sleeping", "return", "terminated"} =>
      /\ Flushed(t) = Events(t)
      /\ \A k \in 1..Len(buf) : buf[k].tag # desc[t].name
      /\ \A k \in 1..Len(out) :
           out[k].tag = desc[t].name =>
             k < Len(out) /\ out[k + 1] = Newline

\* stdout is fully buffered: TASK_A sleeps with its record flushed while a
\* complete record of TASK_B is still in the buffer.
C15_Witness ==
  /\ mode = "full"
  /\ tpc["A"] = "sleeping"
  /\ Len(Flushed("A")) = 1
  /\ tpc["B"] = "fflush"
  /\ buf = <<IterText("TASK_B", 1), Newline>>

\* C16: pthread_create is called for TASK_B only after it succeeded for
\* TASK_A; a task whose thread has not been created has written nothing and
\* has no thread; and when the launch of TASK_A has failed, TASK_B is never
\* launched and stdout stays empty.
C16_LaunchOrder ==
  /\ attempts["B"] > 0 => "A" \in created
  /\ \A t \in Tasks :
       t \notin created => Events(t) = <<>> /\ tpc[t] = "unborn"
  /\ LaunchFailed("A") =>
       /\ attempts["B"] = 0
       /\ created = {}
       /\ Stream = <<>>

\* TASK_A has written all its events, done included, and has terminated
\* before main calls pthread_create for TASK_B.
C16_Witness ==
  /\ mpc = "create_B"
  /\ attempts["B"] = 0
  /\ desc["A"].iterations = 2
  /\ Len(Events("A")) = 3
  /\ DoneEmitted("A")
  /\ tpc["A"] = "terminated"
  /\ Events("B") = <<>>

====
